---- MODULE Spec2Model ----
(***************************************************************************)
(* Model of src-tauri/src/main.rs: the approval ledger (approvals table),  *)
(* the agent registry (agents table), the action log (logs table), the     *)
(* external executor (run_node_script), the background scheduler_loop,     *)
(* the credential slot (user_settings) and the LLM router (llm_reply).     *)
(*                                                                         *)
(* The agents and approvals tables are sequences of rows; a uuid is        *)
(* modelled by the row's index, which is fresh and never reused because no *)
(* statement of the program deletes a row.  The logs table is a bag of     *)
(* rows: the program names no log row by id and reads them ordered by      *)
(* timestamp only.                                                         *)
(* Strings the program searches (agent names, schedule expressions) are    *)
(* sequences of characters, so that to_lowercase and contains are computed *)
(* and not assumed.  Connection::open and the log INSERT are taken to      *)
(* succeed, and so are the UPDATEs of user_settings; the INSERT of         *)
(* create_approval may fail (its Err branch is handled by the callers).    *)
(* A provider's answer to a request is an input: which of its outcomes     *)
(* happens, and the body it carries.                                       *)
(***************************************************************************)
EXTENDS Integers, Sequences, FiniteSets, Bags, TLC

VARIABLES
    agents,     \* agents table: rows in insertion order, id = index
    approvals,  \* approvals table: rows in insertion order, id = index
    logs,       \* logs table: a bag of rows (the program reads them by timestamp only)
    execs,      \* history of run_node_script calls (the external executor)
    wall,       \* wall clock, minutes since midnight (Local::now / datetime('now'))
    sched,      \* the scheduler_loop task: position, snapshot, rows of the pass
    calls,      \* the approve_action calls in flight, one per request handler
    user_settings, \* the table user_settings: its rows by id (the credential slot is row 1)
    reply       \* the last answer of a command of the settings, router and listing surface

vars == <<agents, approvals, logs, execs, wall, sched, calls, user_settings, reply>>

----------------------------------------------------------------------------
(* Bounds of the model *)

MaxAgents == 2
MaxApprovals == 2
MaxLogs == 7
MaxExecs == 2
MaxMinute == 1
MaxCalls == 4
MaxKeyLen == 3

----------------------------------------------------------------------------
(* Option values (NULL columns, Option<String>) *)

None == <<>>
Some(x) == <<x>>

----------------------------------------------------------------------------
(* Strings as sequences of characters *)

Upper == <<"A","B","C","D","E","F","G","H","I","J","K","L","M",
           "N","O","P","Q","R","S","T","U","V","W","X","Y","Z">>
Lower == <<"a","b","c","d","e","f","g","h","i","j","k","l","m",
           "n","o","p","q","r","s","t","u","v","w","x","y","z">>

UpperSet == {Upper[i] : i \in 1..Len(Upper)}
LowerOf == [c \in UpperSet |-> Lower[CHOOSE i \in 1..Len(Upper) : Upper[i] = c]]

LowerChar(c) == IF c \in UpperSet THEN LowerOf[c] ELSE c

\* str::to_lowercase
to_lowercase(s) == [i \in 1..Len(s) |-> LowerChar(s[i])]

\* str::contains(pattern)
contains(s, sub) ==
    \E i \in 0..(Len(s) - Len(sub)) : SubSeq(s, i + 1, i + Len(sub)) = sub

\* trim that leaves the string as it is
no_trim(s) == s

\* str::trim: the string without its leading and trailing blanks
trim(s) ==
    LET idx == {i \in 1..Len(s) : s[i] # " "}
    IN  IF idx = {} THEN <<>>
        ELSE SubSeq(s, CHOOSE i \in idx : \A j \in idx : i <= j,
                       CHOOSE i \in idx : \A j \in idx : i >= j)

\* str::replace(from, to): every non-overlapping match of from, left to right
RECURSIVE replace(_, _, _)
replace(s, from, to) ==
    IF Len(s) < Len(from) THEN s
    ELSE IF SubSeq(s, 1, Len(from)) = from
         THEN to \o replace(SubSeq(s, Len(from) + 1, Len(s)), from, to)
         ELSE <<s[1]>> \o replace(Tail(s), from, to)

kw_daily == <<"d","a","i","l","y">>
kw_hourly == <<"h","o","u","r","l","y">>
kw_hashtag == <<"h","a","s","h","t","a","g">>

name_trending == <<"T","r","e","n","d","i","n","g"," ","A","g","e","n","t">>
name_hashtag_promo ==
    <<"H","a","s","h","t","a","g"," ","P","r","o","m","o"," ","A","g","e","n","t">>
name_news == <<"N","e","w","s"," ","B","o","t">>
name_tag == <<"#","H","A","S","H","T","A","G">>

sched_daily == <<"d","a","i","l","y">>
sched_hourly == <<"h","o","u","r","l","y">>
sched_HOURLY == <<"H","O","U","R","L","Y">>
sched_both == <<"D","a","i","l","y","+","h","o","u","r","l","y">>
sched_weekly == <<"w","e","e","k","l","y">>

\* the secret prefixes redact_secrets knows and the marker it writes
prefix_AIza == <<"A","I","z","a">>
prefix_sk == <<"s","k","-">>
marker == <<"*","*","*","R","E","D","A","C","T","E","D","*","*","*">>

\* provider names: the three the router dispatches on, and the aliases
p_gemini == <<"g","e","m","i","n","i">>
p_google == <<"g","o","o","g","l","e">>
p_openai == <<"o","p","e","n","a","i">>
p_gpt == <<"g","p","t">>
p_claude == <<"c","l","a","u","d","e">>
p_anthropic == <<"a","n","t","h","r","o","p","i","c">>
p_local_phi3 == <<"l","o","c","a","l","_","p","h","i","3">>

----------------------------------------------------------------------------
(* Inputs *)

\* Arguments of save_agent_config (name, tools_json, schedule).  role, goal,
\* triggers_json and sandbox are stored but read by no operation modelled here.
AgentTemplates ==
    { [name |-> name_trending, schedule |-> Some(sched_daily),
       tools |-> {"demo_trending", "linkedin_post"}],
      [name |-> name_hashtag_promo, schedule |-> Some(sched_hourly),
       tools |-> {"demo_hashtag", "linkedin_comment"}],
      [name |-> name_news, schedule |-> Some(sched_HOURLY), tools |-> {}],
      [name |-> name_news, schedule |-> Some(sched_both), tools |-> {}],
      [name |-> name_tag, schedule |-> Some(sched_hourly),
       tools |-> {"linkedin_comment"}],
      [name |-> name_news, schedule |-> None, tools |-> {"demo_trending"}],
      [name |-> name_trending, schedule |-> Some(sched_weekly), tools |-> {}] }

\* Results of get_trending_topics: the lines printed by openclaw, or the
\* fixed fallback list.
FallbackTopics == <<"AI agents in desktop apps",
                    "Local LLM + privacy-first workflows",
                    "Browser automation for daily ops">>
TopicLists == { FallbackTopics, <<"openclaw topic">> }

\* Approval kinds handed to create_approval
Kinds == {"linkedin_post", "linkedin_comment", "unknown_kind"}

\* Free text typed by the user (linkedin_post)
Texts == { <<"text", "hello">> }

\* Draft texts handed to create_approval
Drafts == { <<"draft", "one">>, <<"draft", "two">> }

\* agent_name arguments of run_demo1_now
AgentNames == { name_trending, name_news, name_tag }

\* Wall-clock minutes at start-up: 09:00 and 10:00
StartTimes == {540, 600}

\* Start-up in the minute before the daily anchor: 08:59
StartBeforeAnchor == 539

\* The handlers that can each run one approve_action call at a time
Handlers == {"h1", "h2"}

\* llm_api_key arguments of save_user_api_key: empty, blank, a key in blanks
ApiKeys == { <<>>, <<" ", " ">>, <<" ", "A", "I", "z", "a", "k", "1", " ">> }

\* llm_provider arguments of save_user_api_key: aliases in any case and in
\* blanks, and a name the router does not know
ProviderNames ==
    { <<"G","o","o","g","l","e">>, <<" ","G","P","T"," ">>,
      <<"c","l","a","u","d","e">>, <<"M","i","s","t","r","a","l">> }

\* What a provider can answer to one request: the request fails in transport,
\* a non-2xx status, a 2xx body that does not parse, a 2xx body carrying an
\* error object (Gemini), a 2xx body with no answer text, a 2xx body with text
GeminiOutcomes == {"transport", "http", "parse", "api_error", "empty", "text"}
OpenAIOutcomes == {"transport", "http", "parse", "empty", "text"}
AnthropicOutcomes == {"transport", "http", "parse", "empty", "text"}
LocalOutcomes == {"transport", "http", "parse", "empty", "text"}

\* Response bodies (and error messages) a provider sends back
RouterBodies == { <<"q","u","o","t","a">>, <<"k","e","y"," ","s","k","-","9">> }

\* The answer text of a successful response
AnswerText == <<"a","n","s","w","e","r">>

\* Error bodies handed to redact_secrets: text, a secret prefix, the rest of
\* the key, text
BodyPre == { <<>>, <<"e","r","r"," ">> }
BodyPost == { <<>>, <<" ","!">> }
SecretPrefixes == { prefix_AIza, prefix_sk }
KeyChars == {"x", "s", "k", "-"}
KeyRests == UNION { [1..n -> KeyChars] : n \in 1..MaxKeyLen }
SecretBodies ==
    { [pre |-> a, prefix |-> b, key |-> c, post |-> d] :
        a \in BodyPre, b \in SecretPrefixes, c \in KeyRests, d \in BodyPost }
BodyText(b) == b.pre \o b.prefix \o b.key \o b.post

DailyHour == 9
DailyMinute == 0
HourlyMinute == 0
SleepMinutes == 1

----------------------------------------------------------------------------
(* Pure helpers translated from the source *)

hour_of(t) == (t \div 60) % 24
minute_of(t) == t % 60

\* build_demo1_post: the post template around the first topic
build_demo1_post(topics) ==
    <<"build_demo1_post", IF Len(topics) >= 1 THEN topics[1] ELSE "AI agents">>

\* the draft of demo1_run: a numbered list of up to 5 topics in a template
demo1_run_draft(topics) ==
    <<"demo1_run", SubSeq(topics, 1, IF Len(topics) < 5 THEN Len(topics) ELSE 5)>>

\* the draft of run_demo1_now: a template around the first topic
run_demo1_now_draft(topics) ==
    <<"run_demo1_now", IF Len(topics) >= 1 THEN topics[1] ELSE "OpenClaw">>

\* build_demo2_comment(repo_url) with the repo_url of run_demo2_once
build_demo2_comment == <<"build_demo2_comment", "https://github.com/<YOUR_USERNAME>/<YOUR_REPO>">>

\* the literal comment of demo2_run
demo2_run_comment == <<"demo2_run comment">>

\* the row written by INSERT INTO logs
LogRow(level, agent, message, now) ==
    [agent_id |-> agent, timestamp |-> now, level |-> level, message |-> message]

write_log(l, level, message, now) ==
    l (+) SetToBag({LogRow(level, None, message, now)})

\* write_log_agent that loses the row
write_log_agent_dropping(l, level, agent_id, message, now) == l

\* write_log_agent that keeps the newest row only
write_log_agent_replacing(l, level, agent_id, message, now) ==
    SetToBag({LogRow(level, Some(agent_id), message, now)})

write_log_agent(l, level, agent_id, message, now) ==
    l (+) SetToBag({LogRow(level, Some(agent_id), message, now)})

\* the row written by INSERT INTO agents: enabled is not in the column list
\* and takes the table's DEFAULT 0
NewAgentRow(id, tpl, now) ==
    [id |-> id, name |-> tpl.name, schedule |-> tpl.schedule, tools |-> tpl.tools,
     enabled |-> FALSE, created_at |-> now]

\* NewApprovalRow with decided_at written at creation
NewApprovalRowStamped(id, agent_id, kind, draft_text, now) ==
    [id |-> id, agent_id |-> agent_id, kind |-> kind, draft_text |-> draft_text,
     status |-> "pending", created_at |-> now, decided_at |-> Some(now)]

\* NewApprovalRow with the status column written as already decided
NewApprovalRowDecided(id, agent_id, kind, draft_text, now) ==
    [id |-> id, agent_id |-> agent_id, kind |-> kind, draft_text |-> draft_text,
     status |-> "approved", created_at |-> now, decided_at |-> None]

\* the row written by INSERT INTO approvals: status takes DEFAULT 'pending',
\* decided_at takes NULL
NewApprovalRow(id, agent_id, kind, draft_text, now) ==
    [id |-> id, agent_id |-> agent_id, kind |-> kind, draft_text |-> draft_text,
     status |-> "pending", created_at |-> now, decided_at |-> None]

\* SelectPending without "AND status='pending'"
SelectAnyStatus(rows, id) ==
    id \in 1..Len(rows)

\* SELECT ... FROM approvals WHERE id=?1 AND status='pending' finds a row
SelectPending(rows, id) ==
    id \in 1..Len(rows) /\ rows[id].status = "pending"

\* MarkApproved without "decided_at=datetime('now')"
MarkApprovedNoTimestamp(rows, id, now) ==
    [r \in 1..Len(rows) |->
        IF rows[r].id = id THEN [rows[r] EXCEPT !.status = "approved"] ELSE rows[r]]

\* UPDATE approvals SET status='approved', decided_at=datetime('now') WHERE id=?1
MarkApproved(rows, id, now) ==
    [r \in 1..Len(rows) |->
        IF rows[r].id = id
        THEN [rows[r] EXCEPT !.status = "approved", !.decided_at = Some(now)]
        ELSE rows[r]]

\* ExecutorFor with the default arm running the post script
ExecutorForDefaultPost(kind) ==
    CASE kind = "linkedin_comment" -> Some("linkedin_comment.js")
      [] OTHER -> Some("linkedin_post.js")

\* match kind.as_str() in approve_action: the script of a recognized kind
ExecutorFor(kind) ==
    CASE kind = "linkedin_post" -> Some("linkedin_post.js")
      [] kind = "linkedin_comment" -> Some("linkedin_comment.js")
      [] OTHER -> None

\* the log messages around the executor call in approve_action
StartMessage(kind) ==
    IF kind = "linkedin_post" THEN <<"Posting to LinkedIn...">>
                              ELSE <<"Commenting on LinkedIn...">>
DoneMessage(kind) ==
    IF kind = "linkedin_post" THEN <<"LinkedIn post completed">>
                              ELSE <<"LinkedIn comment completed">>

\* one run_node_script call as the executor history records it
\* (via: the caller; agent: the agent the caller acts for, 0 when none;
\* approval: the approval being dispatched, 0 when none)
ExecRow(script, text, via, agent, approval, ok) ==
    [script |-> script, text |-> text, via |-> via, agent |-> agent,
     approval |-> approval, ok |-> ok]

\* s.contains("daily") && hour == 9 && minute == 0
DailyDue(s, hour, minute) ==
    contains(s, kw_daily) /\ hour = DailyHour /\ minute = DailyMinute

\* HourlyDue without the test of the agent's name
HourlyDueAnyName(s, name, minute) ==
    contains(s, kw_hourly) /\ minute = HourlyMinute

\* s.contains("hourly") && minute == 0 && name.to_lowercase().contains("hashtag")
HourlyDue(s, name, minute) ==
    /\ contains(s, kw_hourly)
    /\ minute = HourlyMinute
    /\ contains(to_lowercase(name), kw_hashtag)

\* Latest with the order reversed: "ORDER BY created_at ASC LIMIT 1"
Earliest(ids) ==
    { a \in ids : \A b \in ids : agents[b].created_at >= agents[a].created_at }

\* The rows "ORDER BY created_at DESC LIMIT 1" can return among ids: one of the
\* newest (rows that share the newest created_at are in no defined order)
Latest(ids) ==
    { a \in ids : \A b \in ids : agents[b].created_at <= agents[a].created_at }

AgentIds == 1..Len(agents)

----------------------------------------------------------------------------
(* Initial state: the tables as main() creates them, the scheduler task
   spawned and about to take its first snapshot, no call in flight *)

IdleCall == [pc |-> "idle", id |-> 0, agent_id |-> 0, kind |-> "",
             draft_text |-> <<>>, result |-> "none", nexec |-> 0]

\* the row ensure_user_settings_table inserts: id 1, every column NULL
EmptySettings == [llm_api_key |-> None, llm_provider |-> None, updated_at |-> None]

\* ensure_user_settings_table that inserts with OR REPLACE
ensure_user_settings_table_replacing(table) ==
    (1 :> EmptySettings) @@ table

\* ensure_user_settings_table on the rows of user_settings: INSERT OR IGNORE of
\* the all-NULL row with id 1 (the primary key, CHECK (id = 1))
ensure_user_settings_table(table) ==
    IF 1 \in DOMAIN table THEN table ELSE (1 :> EmptySettings) @@ table

\* the row "WHERE id=1" of user_settings
settings == user_settings[1]

\* no command answered yet.  n counts the commands answered; arg holds the
\* command's arguments, label and adapter the provider llm_reply names and the
\* adapter it called, raw the body the provider sent, message the text returned;
\* cred remembers the latest write of the credential slot (the command, and
\* the provider a save stored)
IdleReply == [op |-> "none", n |-> 0, ok |-> TRUE, arg |-> <<>>, label |-> <<>>,
              adapter |-> <<>>, outcome |-> "none", raw |-> None, message |-> <<>>,
              cred |-> <<>>]

\* the state after main() when the process starts at minute t
InitAt(t) ==
    /\ agents = <<>>
    /\ approvals = <<>>
    /\ logs = EmptyBag
    /\ execs = <<>>
    /\ wall = t
    /\ sched = [pc |-> "start", hour |-> 0, minute |-> 0, rows |-> <<>>, i |-> 1,
                sleptAt |-> 0, made |-> <<>>]
    /\ calls = [h \in Handlers |-> IdleCall]
    /\ user_settings = ensure_user_settings_table(<<>>)
    /\ reply = IdleReply

Init == \E t \in StartTimes : InitAt(t)

\* the model's bounds on the tables and on the executor history
Fits(ag, ap, lg, ex) ==
    /\ Len(ag) <= MaxAgents
    /\ Len(ap) <= MaxApprovals
    /\ BagCardinality(lg) <= MaxLogs
    /\ Len(ex) <= MaxExecs

----------------------------------------------------------------------------
(* The wall clock advances by one minute *)

Tick ==
    /\ minute_of(wall + 1) <= MaxMinute
    /\ wall' = wall + 1
    /\ UNCHANGED <<agents, approvals, logs, execs, sched, calls, user_settings, reply>>

----------------------------------------------------------------------------
(* Agent registry *)

\* save_agent_config: INSERT INTO agents, then the "Agent created" log
save_agent_config ==
    \E tpl \in AgentTemplates :
        LET id == Len(agents) + 1
            ag == Append(agents, NewAgentRow(id, tpl, wall))
            lg == write_log_agent(logs, "INFO", id, <<"Agent created", tpl.schedule>>, wall)
        IN  /\ Fits(ag, approvals, lg, execs)
            /\ agents' = ag
            /\ logs' = lg
            /\ UNCHANGED <<approvals, execs, wall, sched, calls, user_settings, reply>>

\* create_demo_agents: save_agent_config twice with the two demo definitions
create_demo_agents ==
    LET t1 == [name |-> name_trending, schedule |-> Some(sched_daily),
               tools |-> {"demo_trending", "linkedin_post"}]
        t2 == [name |-> name_hashtag_promo, schedule |-> Some(sched_hourly),
               tools |-> {"demo_hashtag", "linkedin_comment"}]
        id1 == Len(agents) + 1
        id2 == Len(agents) + 2
        ag == Append(Append(agents, NewAgentRow(id1, t1, wall)), NewAgentRow(id2, t2, wall))
        lg == write_log_agent(
                  write_log_agent(logs, "INFO", id1, <<"Agent created", t1.schedule>>, wall),
                  "INFO", id2, <<"Agent created", t2.schedule>>, wall)
    IN  /\ Fits(ag, approvals, lg, execs)
        /\ agents' = ag
        /\ logs' = lg
        /\ UNCHANGED <<approvals, execs, wall, sched, calls, user_settings, reply>>

----------------------------------------------------------------------------
(* Approval ledger *)

\* create_approval(agent_id, kind, draft_text): Ok(id) and the table with the
\* new row, or Err and the table as it was when the INSERT fails
create_approval(rows, agent_id, kind, draft_text, now, storeOk) ==
    IF storeOk
    THEN [ok |-> TRUE, id |-> Len(rows) + 1,
          rows |-> Append(rows, NewApprovalRow(Len(rows) + 1, agent_id, kind, draft_text, now))]
    ELSE [ok |-> FALSE, id |-> 0, rows |-> rows]

\* create_approval called on its own (the ledger's createApproval), with any
\* kind and draft
CreateApproval ==
    \E a \in AgentIds, k \in Kinds, d \in Drafts :
        LET r == create_approval(approvals, a, k, d, wall, TRUE)
        IN  /\ Fits(agents, r.rows, logs, execs)
            /\ approvals' = r.rows
            /\ UNCHANGED <<agents, logs, execs, wall, sched, calls, user_settings, reply>>

\* approve_action, first store operation: SELECT the pending row
approve_action_select(h) ==
    \E id \in 1..MaxApprovals :
        /\ calls[h].pc = "idle"
        /\ IF SelectPending(approvals, id)
           THEN calls' = [calls EXCEPT ![h] =
                    [pc |-> "update", id |-> id, agent_id |-> approvals[id].agent_id,
                     kind |-> approvals[id].kind, draft_text |-> approvals[id].draft_text,
                     result |-> "none", nexec |-> 0]]
           ELSE calls' = [calls EXCEPT ![h] =
                    [IdleCall EXCEPT !.id = id, !.result = "not_found"]]
        /\ UNCHANGED <<agents, approvals, logs, execs, wall, sched, user_settings, reply>>

\* approve_action, second store operation: UPDATE the row, then log the approval
approve_action_update(h) ==
    LET c == calls[h]
        lg == write_log_agent(logs, "INFO", c.agent_id, <<"Approval accepted id=", c.id>>, wall)
    IN  /\ c.pc = "update"
        /\ Fits(agents, approvals, lg, execs)
        /\ approvals' = MarkApproved(approvals, c.id, wall)
        /\ logs' = lg
        /\ calls' = [calls EXCEPT ![h].pc = "dispatch"]
        /\ UNCHANGED <<agents, execs, wall, sched, user_settings, reply>>

\* approve_action, the match on kind: run the executor of a recognized kind
\* and log its completion, or return the unknown-kind error
approve_action_dispatch(h) ==
    \E execOk \in BOOLEAN :
        LET c == calls[h]
            script == ExecutorFor(c.kind)
            lg1 == write_log_agent(logs, "INFO", c.agent_id, StartMessage(c.kind), wall)
            lg2 == IF execOk
                   THEN write_log_agent(lg1, "INFO", c.agent_id, DoneMessage(c.kind), wall)
                   ELSE lg1
            ex == Append(execs, ExecRow(script[1], c.draft_text, "approve_action", c.agent_id, c.id, execOk))
        IN  /\ c.pc = "dispatch"
            /\ IF script = None
               THEN /\ calls' = [calls EXCEPT ![h] =
                        [IdleCall EXCEPT !.id = c.id, !.result = "unsupported_kind"]]
                    /\ UNCHANGED <<logs, execs>>
               ELSE /\ Fits(agents, approvals, lg2, ex)
                    /\ logs' = lg2
                    /\ execs' = ex
                    /\ calls' = [calls EXCEPT ![h] =
                        [IdleCall EXCEPT !.id = c.id, !.nexec = 1,
                                         !.result = IF execOk THEN "ok" ELSE "exec_error"]]
            /\ UNCHANGED <<agents, approvals, wall, sched, user_settings, reply>>

\* pending_ids without "WHERE status='pending'"
all_ids(rows) == 1..Len(rows)

\* the rows "FROM approvals WHERE status='pending'" selects
pending_ids(rows) == {id \in 1..Len(rows) : rows[id].status = "pending"}

\* list_pending_approvals: the texts it can return, one numbered entry
\* (count, id, kind, draft) per pending row, ORDER BY created_at DESC (rows
\* that share created_at are in no defined order)
PendingListings(rows) ==
    LET P == pending_ids(rows)
        n == Cardinality(P)
        orders == {f \in [1..n -> P] :
                     /\ \A i, j \in 1..n : i # j => f[i] # f[j]
                     /\ \A i, j \in 1..n :
                           i < j => rows[f[i]].created_at >= rows[f[j]].created_at}
    IN  {[k \in 1..n |-> <<k, rows[f[k]].id, rows[f[k]].kind, rows[f[k]].draft_text>>] :
            f \in orders}

list_pending_approvals ==
    \E listing \in PendingListings(approvals) :
        /\ reply.n < MaxCalls
        /\ reply' = [IdleReply EXCEPT !.op = "list_pending_approvals", !.n = reply.n + 1,
                         !.outcome = IF listing = <<>> THEN "none_pending" ELSE "listed",
                         !.message = listing, !.cred = reply.cred]
        /\ UNCHANGED <<agents, approvals, logs, execs, wall, sched, calls, user_settings>>

----------------------------------------------------------------------------
(* On-demand triggers *)

\* demo1_run: the newest agent whose tools_json mentions demo_trending gets a
\* draft of kind linkedin_post
demo1_run ==
    \E target \in Latest({a \in AgentIds : "demo_trending" \in agents[a].tools}),
       topics \in TopicLists, storeOk \in BOOLEAN :
        LET lg1 == write_log_agent(logs, "INFO", target, <<"Demo1 trigger started">>, wall)
            r == create_approval(approvals, target, "linkedin_post",
                                 demo1_run_draft(topics), wall, storeOk)
            lg2 == IF r.ok
                   THEN write_log_agent(lg1, "INFO", target, <<"Demo1 created approval id=", r.id>>, wall)
                   ELSE lg1
        IN  /\ Fits(agents, r.rows, lg2, execs)
            /\ approvals' = r.rows
            /\ logs' = lg2
            /\ UNCHANGED <<agents, execs, wall, sched, calls, user_settings, reply>>

\* run_demo1_once: the newest agent named 'Trending Agent', if its tools hold
\* demo_trending, gets a draft of kind linkedin_post
run_demo1_once ==
    \E target \in Latest({a \in AgentIds : agents[a].name = name_trending}),
       topics \in TopicLists, storeOk \in BOOLEAN :
        LET lg1 == write_log_agent(logs, "INFO", target, <<"Demo1 started: fetching trending topics...">>, wall)
            r == create_approval(approvals, target, "linkedin_post",
                                 build_demo1_post(topics), wall, storeOk)
            lg2 == IF r.ok
                   THEN write_log_agent(lg1, "INFO", target, <<"Created approval id=", r.id>>, wall)
                   ELSE lg1
        IN  /\ "demo_trending" \in agents[target].tools
            /\ Fits(agents, r.rows, lg2, execs)
            /\ approvals' = r.rows
            /\ logs' = lg2
            /\ UNCHANGED <<agents, execs, wall, sched, calls, user_settings, reply>>

\* run_demo1_now(agent_name): the newest agent of that name gets a draft of
\* kind linkedin_post; Err("Agent not found by that name.") before any write
\* when no agent has the name
run_demo1_now ==
    \E agent_name \in AgentNames, topics \in TopicLists, storeOk \in BOOLEAN :
        LET named == {a \in AgentIds : agents[a].name = agent_name}
            answer(ok, outcome, message) ==
                [IdleReply EXCEPT !.op = "run_demo1_now", !.n = reply.n + 1, !.ok = ok,
                                  !.arg = <<agent_name>>, !.outcome = outcome,
                                  !.message = message, !.cred = reply.cred]
        IN  /\ reply.n < MaxCalls
            /\ IF named = {}
               THEN /\ reply' = answer(FALSE, "not_found", <<>>)
                    /\ UNCHANGED <<approvals, logs>>
               ELSE \E target \in Latest(named) :
                    LET lg1 == write_log_agent(logs, "INFO", target,
                                   <<"Demo1 trigger: generating trending post draft">>, wall)
                        r == create_approval(approvals, target, "linkedin_post",
                                             run_demo1_now_draft(topics), wall, storeOk)
                        lg2 == IF r.ok
                               THEN write_log_agent(lg1, "INFO", target, <<"Created approval id=", r.id>>, wall)
                               ELSE lg1
                    IN  /\ Fits(agents, r.rows, lg2, execs)
                        /\ approvals' = r.rows
                        /\ logs' = lg2
                        /\ reply' = IF r.ok THEN answer(TRUE, "created", <<r.id>>)
                                            ELSE answer(FALSE, "store_error", <<>>)
            /\ UNCHANGED <<agents, execs, wall, sched, calls, user_settings>>

\* demo2_run: the newest agent whose tools_json mentions linkedin_comment runs
\* the comment script at once
demo2_run ==
    \E target \in Latest({a \in AgentIds : "linkedin_comment" \in agents[a].tools}),
       execOk \in BOOLEAN :
        LET lg1 == write_log_agent(logs, "INFO", target, <<"Demo2 trigger started (auto comment)">>, wall)
            ex == Append(execs, ExecRow("linkedin_comment.js", demo2_run_comment, "demo2_run", target, 0, execOk))
            lg2 == IF execOk
                   THEN write_log_agent(lg1, "INFO", target, <<"Demo2 completed">>, wall)
                   ELSE lg1
        IN  /\ Fits(agents, approvals, lg2, ex)
            /\ execs' = ex
            /\ logs' = lg2
            /\ UNCHANGED <<agents, approvals, wall, sched, calls, user_settings, reply>>

\* linkedin_post(text): runs the post script with the caller's text
linkedin_post ==
    \E text \in Texts, execOk \in BOOLEAN :
        LET lg1 == write_log(logs, "INFO", <<"LinkedIn post requested">>, wall)
            ex == Append(execs, ExecRow("linkedin_post.js", text, "linkedin_post", 0, 0, execOk))
            lg2 == IF execOk
                   THEN write_log(lg1, "INFO", <<"LinkedIn post completed">>, wall)
                   ELSE lg1
        IN  /\ Fits(agents, approvals, lg2, ex)
            /\ execs' = ex
            /\ logs' = lg2
            /\ UNCHANGED <<agents, approvals, wall, sched, calls, user_settings, reply>>

\* tick_now_logs applying the anchors of the background loop: daily only at
\* 09:00, hourly only at minute 0 and for names containing 'hashtag'
RECURSIVE tick_now_logs_anchored(_, _, _)
tick_now_logs_anchored(lg, a, now) ==
    IF a > Len(agents) THEN lg
    ELSE IF agents[a].schedule = None THEN tick_now_logs_anchored(lg, a + 1, now)
    ELSE LET s == to_lowercase(agents[a].schedule[1])
             lg1 == IF DailyDue(s, hour_of(now), minute_of(now))
                    THEN write_log_agent(lg, "INFO", a, <<"Scheduler tick: daily agent fired">>, now)
                    ELSE lg
             lg2 == IF HourlyDue(s, agents[a].name, minute_of(now))
                    THEN write_log_agent(lg1, "INFO", a, <<"Scheduler tick: hourly agent fired">>, now)
                    ELSE lg1
         IN  tick_now_logs_anchored(lg2, a + 1, now)

\* the log entries scheduler_tick_now writes for the agents from row a on
RECURSIVE tick_now_logs(_, _, _)
tick_now_logs(lg, a, now) ==
    IF a > Len(agents) THEN lg
    ELSE IF agents[a].schedule = None THEN tick_now_logs(lg, a + 1, now)
    ELSE LET s == to_lowercase(agents[a].schedule[1])
             lg1 == IF contains(s, kw_daily)
                    THEN write_log_agent(lg, "INFO", a, <<"Scheduler tick: daily agent fired">>, now)
                    ELSE lg
             lg2 == IF contains(s, kw_hourly)
                    THEN write_log_agent(lg1, "INFO", a, <<"Scheduler tick: hourly agent fired">>, now)
                    ELSE lg1
         IN  tick_now_logs(lg2, a + 1, now)

\* scheduler_tick_now: the simulated tick
scheduler_tick_now ==
    LET lg == tick_now_logs(logs, 1, wall)
    IN  /\ BagCardinality(logs) < MaxLogs
        /\ lg # logs
        /\ Fits(agents, approvals, lg, execs)
        /\ logs' = lg
        /\ UNCHANGED <<agents, approvals, execs, wall, sched, calls, user_settings, reply>>

----------------------------------------------------------------------------
(* The background scheduler *)

\* run_demo2_once, called for the agent `fired` of the pass: the newest agent
\* named 'Hashtag Promo Agent' (target, 0 when there is none), if its tools
\* hold demo_hashtag, runs the comment script
run_demo2_once(lg, ex, fired, target, execOk, now) ==
    IF target = 0 \/ "demo_hashtag" \notin agents[target].tools
    THEN [logs |-> lg, execs |-> ex, ok |-> FALSE]
    ELSE LET lg1 == write_log_agent(lg, "INFO", target, <<"Demo2 started: commenting on #openclaw...">>, now)
             ex1 == Append(ex, ExecRow("linkedin_comment.js", build_demo2_comment,
                                       "scheduler_loop", fired, 0, execOk))
         IN  IF execOk
             THEN [logs |-> write_log_agent(lg1, "INFO", target, <<"Demo2 completed: comments posted.">>, now),
                   execs |-> ex1, ok |-> TRUE]
             ELSE [logs |-> lg1, execs |-> ex1, ok |-> FALSE]

\* fire_daily running the post script with the draft instead of filing it
fire_daily_direct(st, a, topics, storeOk, now) ==
    [st EXCEPT !.logs = write_log_agent(st.logs, "INFO", a, <<"Scheduler executed daily agent">>, now),
               !.execs = Append(st.execs, ExecRow("linkedin_post.js", build_demo1_post(topics),
                                                  "scheduler_loop", a, 0, storeOk))]

\* the daily branch of the loop body for agent a: log, draft, create_approval,
\* log the outcome
fire_daily(st, a, topics, storeOk, now) ==
    LET lg1 == write_log_agent(st.logs, "INFO", a, <<"Scheduler executed daily agent">>, now)
        r == create_approval(st.approvals, a, "linkedin_post",
                             build_demo1_post(topics), now, storeOk)
    IN  IF r.ok
        THEN [st EXCEPT !.logs = write_log_agent(lg1, "INFO", a, <<"Created approval id=", r.id>>, now),
                        !.approvals = r.rows,
                        !.made = Append(st.made, r.id)]
        ELSE [st EXCEPT !.logs = write_log_agent(lg1, "ERROR", a, <<"Approval creation failed">>, now),
                        !.failed = TRUE]

\* the hourly branch of the loop body for agent a: log, run_demo2_once, result
\* dropped
fire_hourly(st, a, target, execOk, now) ==
    LET lg1 == write_log_agent(st.logs, "INFO", a, <<"Scheduler fired (hourly) -> Demo2">>, now)
        d2 == run_demo2_once(lg1, st.execs, a, target, execOk, now)
    IN  [st EXCEPT !.logs = d2.logs, !.execs = d2.execs, !.failed = st.failed \/ ~d2.ok]

\* the ids "SELECT ... FROM agents WHERE schedule IS NOT NULL" returns, from row a on
RECURSIVE ScheduledRows(_)
ScheduledRows(a) ==
    IF a > Len(agents) THEN <<>>
    ELSE IF agents[a].schedule # None THEN <<a>> \o ScheduledRows(a + 1)
    ELSE ScheduledRows(a + 1)

\* captured reading the clock again at every row
clock_at_row == [hour |-> hour_of(wall), minute |-> minute_of(wall)]

\* the hour and minute the loop body tests: the values read before the pass
\* and moved into its closure
captured == [hour |-> sched.hour, minute |-> sched.minute]

\* next_row leaving the for loop at the first row whose firing failed
next_row_until_failure(i, rows, st) ==
    IF st.failed THEN Len(rows) + 1 ELSE i + 1

\* the for loop goes on to the next row: neither firing arm returns or breaks
\* (st: the tables after the row's loop body, and whether a call in it failed)
next_row(i, rows, st) == i + 1

\* one iteration of the loop begins: after the sleep, snapshot hour and minute
\* once and read the scheduled agents
scheduler_pass_begin ==
    /\ \/ sched.pc = "start"
       \/ sched.pc = "sleep" /\ wall - sched.sleptAt >= SleepMinutes
    /\ sched' = [sched EXCEPT !.pc = "evaluate", !.hour = hour_of(wall),
                              !.minute = minute_of(wall),
                              !.rows = ScheduledRows(1), !.i = 1, !.made = <<>>]
    /\ UNCHANGED <<agents, approvals, logs, execs, wall, calls, user_settings, reply>>

\* the body of the for loop for the next row of the pass
scheduler_evaluate ==
    /\ sched.pc = "evaluate"
    /\ sched.i <= Len(sched.rows)
    /\ LET a == agents[sched.rows[sched.i]]
           s == to_lowercase(a.schedule[1])
           daily == DailyDue(s, captured.hour, captured.minute)
           hourly == HourlyDue(s, a.name, captured.minute)
           named == {b \in AgentIds : agents[b].name = name_hashtag_promo}
           st0 == [logs |-> logs, approvals |-> approvals, execs |-> execs,
                   made |-> sched.made, failed |-> FALSE]
       IN  \E topics \in (IF daily THEN TopicLists ELSE {FallbackTopics}),
              storeOk \in (IF daily THEN BOOLEAN ELSE {TRUE}),
              execOk \in (IF hourly THEN BOOLEAN ELSE {TRUE}),
              target \in (IF named = {} \/ ~hourly THEN {0} ELSE Latest(named)) :
            LET st1 == IF daily THEN fire_daily(st0, a.id, topics, storeOk, wall) ELSE st0
                st2 == IF hourly THEN fire_hourly(st1, a.id, target, execOk, wall) ELSE st1
            IN  /\ Fits(agents, st2.approvals, st2.logs, st2.execs)
                /\ approvals' = st2.approvals
                /\ logs' = st2.logs
                /\ execs' = st2.execs
                /\ sched' = [sched EXCEPT !.i = next_row(sched.i, sched.rows, st2),
                                          !.made = st2.made]
    /\ UNCHANGED <<agents, wall, calls, user_settings, reply>>

\* the body of the for loop for the next row when the comment script of the
\* hourly arm never exits: Command::output() waits for the child without a
\* timeout, inside the blocking task the loop awaits
scheduler_evaluate_hang ==
    /\ sched.pc = "evaluate"
    /\ sched.i <= Len(sched.rows)
    /\ LET a == agents[sched.rows[sched.i]]
           s == to_lowercase(a.schedule[1])
           daily == DailyDue(s, captured.hour, captured.minute)
           named == {b \in AgentIds : agents[b].name = name_hashtag_promo}
           st0 == [logs |-> logs, approvals |-> approvals, execs |-> execs,
                   made |-> sched.made, failed |-> FALSE]
       IN  /\ HourlyDue(s, a.name, captured.minute)
           /\ \E topics \in (IF daily THEN TopicLists ELSE {FallbackTopics}),
                 storeOk \in (IF daily THEN BOOLEAN ELSE {TRUE}),
                 target \in Latest(named) :
                LET st1 == IF daily THEN fire_daily(st0, a.id, topics, storeOk, wall) ELSE st0
                    lg1 == write_log_agent(st1.logs, "INFO", a.id,
                               <<"Scheduler fired (hourly) -> Demo2">>, wall)
                    lg2 == write_log_agent(lg1, "INFO", target,
                               <<"Demo2 started: commenting on #openclaw...">>, wall)
                    ex == Append(st1.execs, ExecRow("linkedin_comment.js", build_demo2_comment,
                                                    "scheduler_loop", a.id, 0, FALSE))
                IN  /\ "demo_hashtag" \in agents[target].tools
                    /\ Fits(agents, st1.approvals, lg2, ex)
                    /\ approvals' = st1.approvals
                    /\ logs' = lg2
                    /\ execs' = ex
                    /\ sched' = [sched EXCEPT !.pc = "blocked", !.made = st1.made]
    /\ UNCHANGED <<agents, wall, calls, user_settings, reply>>

\* scheduler_sleep leaving the loop instead of sleeping
scheduler_exit ==
    /\ sched.pc = "evaluate"
    /\ sched.i > Len(sched.rows)
    /\ sched' = [sched EXCEPT !.pc = "exited", !.sleptAt = wall]
    /\ UNCHANGED <<agents, approvals, logs, execs, wall, calls, user_settings, reply>>

\* the pass is over: sleep(60 s)
scheduler_sleep ==
    /\ sched.pc = "evaluate"
    /\ sched.i > Len(sched.rows)
    /\ sched' = [sched EXCEPT !.pc = "sleep", !.sleptAt = wall]
    /\ UNCHANGED <<agents, approvals, logs, execs, wall, calls, user_settings, reply>>

----------------------------------------------------------------------------
(* Credential store *)

normalize_provider(p) ==
    LET s == to_lowercase(trim(p))
    IN  CASE s \in {p_gemini, p_google} -> p_gemini
          [] s \in {p_openai, p_gpt} -> p_openai
          [] s \in {p_claude, p_anthropic} -> p_anthropic
          [] OTHER -> s

\* get_saved_llm that always answers with the default provider
get_saved_llm_default_provider(row) ==
    IF row.llm_api_key = None \/ trim(row.llm_api_key[1]) = <<>> THEN None
    ELSE Some([provider |-> p_gemini, key |-> trim(row.llm_api_key[1])])

\* get_saved_llm on the row of user_settings: None, or Some((provider, key))
get_saved_llm(row) ==
    IF row.llm_api_key = None THEN None
    ELSE LET key == trim(row.llm_api_key[1])
         IN  IF key = <<>> THEN None
             ELSE Some([provider |-> normalize_provider(
                                         IF row.llm_provider = None THEN p_gemini
                                         ELSE row.llm_provider[1]),
                        key |-> key])

\* UPDATE user_settings SET llm_api_key=?1, llm_provider=?2, updated_at=datetime('now')
saved_row(key, provider, now) ==
    [llm_api_key |-> Some(key), llm_provider |-> Some(provider), updated_at |-> Some(now)]

\* cleared_row that blanks the provider only
cleared_row_provider_only(row, now) ==
    [row EXCEPT !.llm_provider = None, !.updated_at = Some(now)]

\* UPDATE user_settings SET llm_api_key=NULL, llm_provider=NULL, updated_at=datetime('now')
cleared_row(row, now) ==
    [llm_api_key |-> None, llm_provider |-> None, updated_at |-> Some(now)]

\* save_user_api_key(llm_api_key, llm_provider), also reached as set_llm_key
save_user_api_key ==
    \E k \in ApiKeys, p \in ProviderNames :
        LET key == trim(k)
            lg == write_log(logs, "INFO", <<"Saved external LLM API key + provider">>, wall)
        IN  /\ reply.n < MaxCalls
            /\ IF key = <<>>
               THEN /\ reply' = [IdleReply EXCEPT !.op = "save_user_api_key", !.n = reply.n + 1,
                                     !.ok = FALSE, !.arg = <<k, p>>,
                                     !.message = <<"API key is empty.">>,
                                     !.cred = reply.cred]
                    /\ UNCHANGED <<user_settings, logs>>
               ELSE /\ Fits(agents, approvals, lg, execs)
                    /\ user_settings' = [ensure_user_settings_table(user_settings) EXCEPT
                                             ![1] = saved_row(key, normalize_provider(p), wall)]
                    /\ logs' = lg
                    /\ reply' = [IdleReply EXCEPT !.op = "save_user_api_key", !.n = reply.n + 1,
                                     !.ok = TRUE, !.arg = <<k, p>>,
                                     !.message = <<"Saved key.">>,
                                     !.cred = <<"save_user_api_key", normalize_provider(p)>>]
            /\ UNCHANGED <<agents, approvals, execs, wall, sched, calls>>

\* clear_user_api_key
clear_user_api_key ==
    LET lg == write_log(logs, "INFO", <<"Cleared external LLM key">>, wall)
    IN  /\ reply.n < MaxCalls
        /\ Fits(agents, approvals, lg, execs)
        /\ user_settings' = [ensure_user_settings_table(user_settings) EXCEPT
                                 ![1] = cleared_row(@, wall)]
        /\ logs' = lg
        /\ reply' = [IdleReply EXCEPT !.op = "clear_user_api_key", !.n = reply.n + 1,
                         !.message = <<"Cleared key.">>,
                         !.cred = <<"clear_user_api_key">>]
        /\ UNCHANGED <<agents, approvals, execs, wall, sched, calls>>

\* get_user_settings, also reached as show_settings: the bootstrap, then
\* whether a key is set, the stored provider and the router in use
get_user_settings ==
    LET table == ensure_user_settings_table(user_settings)
        row == table[1]
        set == row.llm_api_key # None /\ trim(row.llm_api_key[1]) # <<>>
    IN  /\ reply.n < MaxCalls
        /\ user_settings' = table
        /\ reply' = [IdleReply EXCEPT !.op = "get_user_settings", !.n = reply.n + 1,
                         !.outcome = IF set THEN "set" ELSE "not set",
                         !.label = IF row.llm_provider = None THEN <<>>
                                   ELSE row.llm_provider[1],
                         !.adapter = IF set THEN <<>> ELSE p_local_phi3,
                         !.cred = reply.cred]
        /\ UNCHANGED <<agents, approvals, logs, execs, wall, sched, calls>>

----------------------------------------------------------------------------
(* LLM router *)

\* redact_secrets: the marker is written after every secret prefix
redact_secrets(s) ==
    LET o1 == IF contains(s, prefix_AIza)
              THEN replace(s, prefix_AIza, prefix_AIza \o marker) ELSE s
        o2 == IF contains(o1, prefix_sk)
              THEN replace(o1, prefix_sk, prefix_sk \o marker) ELSE o1
    IN  o2

\* what an adapter hands back: the adapter, Ok or Err with the text (what kind
\* of text, and the body or answer in it), the body received, the log it wrote
AdapterResult(adapter, outcome, ok, what, payload, raw, logged) ==
    [adapter |-> adapter, outcome |-> outcome, ok |-> ok,
     message |-> <<what, payload>>, raw |-> raw, logged |-> logged]

gemini_generate_with_key(outcome, body) ==
    CASE outcome = "transport" ->
           AdapterResult(p_gemini, outcome, FALSE, "Gemini request failed", <<>>, None, <<>>)
      [] outcome = "http" ->
           AdapterResult(p_gemini, outcome, FALSE, "Gemini HTTP", redact_secrets(body), Some(body), <<>>)
      [] outcome = "parse" ->
           AdapterResult(p_gemini, outcome, FALSE, "Failed parsing Gemini JSON", redact_secrets(body), Some(body), <<>>)
      [] outcome = "api_error" ->
           AdapterResult(p_gemini, outcome, FALSE, "Gemini error", body, Some(body), <<>>)
      [] outcome = "empty" ->
           AdapterResult(p_gemini, outcome, TRUE, "(No response from Gemini)", <<>>, None, <<>>)
      [] OTHER ->
           AdapterResult(p_gemini, outcome, TRUE, "answer", AnswerText, None, <<>>)

openai_generate_with_key(outcome, body) ==
    CASE outcome = "transport" ->
           AdapterResult(p_openai, outcome, FALSE, "OpenAI request failed", <<>>, None, <<>>)
      [] outcome = "http" ->
           AdapterResult(p_openai, outcome, FALSE, "OpenAI HTTP", redact_secrets(body), Some(body), <<>>)
      [] outcome = "parse" ->
           AdapterResult(p_openai, outcome, FALSE, "Failed parsing OpenAI JSON", redact_secrets(body), Some(body), <<>>)
      [] outcome = "empty" ->
           AdapterResult(p_openai, outcome, TRUE, "(No response from OpenAI)", <<>>, None, <<>>)
      [] OTHER ->
           AdapterResult(p_openai, outcome, TRUE, "answer", AnswerText, None, <<>>)

anthropic_generate_with_key(outcome, body) ==
    CASE outcome = "transport" ->
           AdapterResult(p_anthropic, outcome, FALSE, "Anthropic request failed", <<>>, None, <<>>)
      [] outcome = "http" ->
           AdapterResult(p_anthropic, outcome, FALSE, "Anthropic HTTP", redact_secrets(body), Some(body), <<>>)
      [] outcome = "parse" ->
           AdapterResult(p_anthropic, outcome, FALSE, "Failed parsing Anthropic JSON", redact_secrets(body), Some(body), <<>>)
      [] outcome = "empty" ->
           AdapterResult(p_anthropic, outcome, TRUE, "(No response from Claude)", <<>>, None, <<>>)
      [] OTHER ->
           AdapterResult(p_anthropic, outcome, TRUE, "answer", AnswerText, None, <<>>)

local_phi3(outcome, body) ==
    CASE outcome = "transport" ->
           AdapterResult(p_local_phi3, outcome, FALSE, "Local LLM (Ollama) request failed", <<>>, None, <<>>)
      [] outcome = "http" ->
           AdapterResult(p_local_phi3, outcome, FALSE, "Local LLM HTTP", body, Some(body),
                         <<[level |-> "ERROR", message |-> <<"Local LLM HTTP", body>>]>>)
      [] outcome = "parse" ->
           AdapterResult(p_local_phi3, outcome, FALSE, "Parse failed", body, Some(body), <<>>)
      [] outcome = "empty" ->
           AdapterResult(p_local_phi3, outcome, FALSE, "Local LLM returned empty content.", body, Some(body),
                         <<[level |-> "ERROR", message |-> <<"Local LLM returned empty content">>]>>)
      [] OTHER ->
           AdapterResult(p_local_phi3, outcome, TRUE, "answer", AnswerText, None, <<>>)

\* external_generate whose default arm falls back to the local adapter
external_generate_fallback_local(provider, outcome, body) ==
    CASE provider = p_gemini -> gemini_generate_with_key(outcome, body)
      [] provider = p_openai -> openai_generate_with_key(outcome, body)
      [] provider = p_anthropic -> anthropic_generate_with_key(outcome, body)
      [] OTHER -> local_phi3(outcome, body)

\* match provider.as_str() in llm_reply
external_generate(provider, outcome, body) ==
    CASE provider = p_gemini -> gemini_generate_with_key(outcome, body)
      [] provider = p_openai -> openai_generate_with_key(outcome, body)
      [] provider = p_anthropic -> anthropic_generate_with_key(outcome, body)
      [] OTHER -> AdapterResult(<<>>, "unknown_provider", FALSE, "Unknown provider", provider, None, <<>>)

\* the answers the provider behind an arm of the match can give
OutcomesOf(provider) ==
    CASE provider = p_gemini -> GeminiOutcomes
      [] provider = p_openai -> OpenAIOutcomes
      [] provider = p_anthropic -> AnthropicOutcomes
      [] OTHER -> {"text"}

\* the outcomes in which a body is read
BodiesOf(outcome) ==
    IF outcome \in {"http", "parse", "api_error", "empty"} THEN RouterBodies ELSE {<<>>}

\* llm_reply(prompt): external adapter when a credential is saved, else local
llm_reply ==
    LET saved == get_saved_llm(settings)
        provider == IF saved # None THEN saved[1].provider ELSE p_local_phi3
        lg == IF saved # None
              THEN write_log(logs, "INFO", <<"LLM routing: external", provider>>, wall)
              ELSE write_log(logs, "INFO", <<"LLM routing: local_phi3">>, wall)
    IN  /\ reply.n < MaxCalls
        /\ \E outcome \in (IF saved # None THEN OutcomesOf(provider) ELSE LocalOutcomes) :
             \E body \in BodiesOf(outcome) :
               LET r == IF saved # None THEN external_generate(provider, outcome, body)
                                         ELSE local_phi3(outcome, body)
                   lg2 == IF r.logged = <<>> THEN lg
                          ELSE write_log(lg, r.logged[1].level, r.logged[1].message, wall)
               IN  /\ Fits(agents, approvals, lg2, execs)
                   /\ logs' = lg2
                   /\ reply' = [IdleReply EXCEPT !.op = "llm_reply", !.n = reply.n + 1,
                                    !.ok = r.ok, !.label = provider, !.adapter = r.adapter,
                                    !.outcome = r.outcome, !.raw = r.raw,
                                    !.message = r.message, !.cred = reply.cred]
        /\ user_settings' = ensure_user_settings_table(user_settings)
        /\ UNCHANGED <<agents, approvals, execs, wall, sched, calls>>

\* redact_secrets applied to one error body
RedactBody ==
    \E b \in SecretBodies :
        /\ reply.op = "none"
        /\ reply' = [IdleReply EXCEPT !.op = "redact_secrets", !.n = reply.n + 1,
                         !.arg = <<b.pre, b.prefix, b.key, b.post>>,
                         !.raw = Some(BodyText(b)),
                         !.message = <<"redacted", redact_secrets(BodyText(b))>>,
                         !.cred = reply.cred]
        /\ UNCHANGED <<agents, approvals, logs, execs, wall, sched, calls, user_settings>>

----------------------------------------------------------------------------

(* Specifications *)

\* The whole program on the two demo agents: the scheduler task and the
\* on-demand commands, one decision at a time
Next ==
    \/ Tick
    \/ create_demo_agents
    \/ approve_action_select("h1")
    \/ approve_action_update("h1")
    \/ approve_action_dispatch("h1")
    \/ demo1_run
    \/ run_demo1_once
    \/ demo2_run
    \/ linkedin_post
    \/ scheduler_tick_now
    \/ scheduler_pass_begin
    \/ scheduler_evaluate
    \/ scheduler_sleep

Spec == Init /\ [][Next]_vars

\* The approval ledger: drafts of any kind, decisions by two handlers whose
\* store operations interleave
NextLedger ==
    \/ Tick
    \/ create_demo_agents
    \/ CreateApproval
    \/ \E h \in Handlers : approve_action_select(h)
    \/ \E h \in Handlers : approve_action_update(h)
    \/ \E h \in Handlers : approve_action_dispatch(h)

InitLedger == Init /\ wall = 540

SpecLedger == InitLedger /\ [][NextLedger]_vars

\* The scheduler over registered agents of every shape, with decisions on the
\* approvals it drafts
NextSched ==
    \/ Tick
    \/ save_agent_config
    \/ approve_action_select("h1")
    \/ approve_action_update("h1")
    \/ approve_action_dispatch("h1")
    \/ scheduler_pass_begin
    \/ scheduler_evaluate
    \/ scheduler_sleep

SpecSched == Init /\ [][NextSched]_vars

\* The credential store and the LLM router
NextRouter ==
    \/ Tick
    \/ save_user_api_key
    \/ clear_user_api_key
    \/ llm_reply

InitRouter == Init /\ wall = 540

SpecRouter == InitRouter /\ [][NextRouter]_vars

\* The credential store on its own: saves, clears and the bootstrap of its
\* table
NextSettings ==
    \/ Tick
    \/ save_user_api_key
    \/ clear_user_api_key
    \/ get_user_settings

SpecSettings == InitRouter /\ [][NextSettings]_vars

\* redact_secrets on error bodies that carry a key
NextRedact == RedactBody

SpecRedact == Init /\ [][NextRedact]_vars

\* The approval ledger and its listing
NextListing ==
    \/ Tick
    \/ create_demo_agents
    \/ CreateApproval
    \/ approve_action_select("h1")
    \/ approve_action_update("h1")
    \/ approve_action_dispatch("h1")
    \/ list_pending_approvals

SpecListing == InitLedger /\ [][NextListing]_vars

\* Every operation that files a draft, and the decision on it, on the two
\* demo agents within the minute 09:00
NextTrigger ==
    \/ create_demo_agents
    \/ run_demo1_now
    \/ demo1_run
    \/ run_demo1_once
    \/ approve_action_select("h1")
    \/ approve_action_update("h1")
    \/ approve_action_dispatch("h1")
    \/ scheduler_pass_begin
    \/ scheduler_evaluate
    \/ scheduler_sleep

SpecTrigger == InitLedger /\ [][NextTrigger]_vars

\* run_demo1_now over registered agents of every shape
NextNow ==
    \/ Tick
    \/ save_agent_config
    \/ run_demo1_now

SpecNow == InitLedger /\ [][NextNow]_vars

\* The scheduler over registered agents of every shape, with a comment script
\* that may never exit
NextHang ==
    \/ Tick
    \/ save_agent_config
    \/ scheduler_pass_begin
    \/ scheduler_evaluate
    \/ scheduler_evaluate_hang
    \/ scheduler_sleep

SpecHang == Init /\ [][NextHang]_vars

\* the loop is about to take its snapshot: the task has just been spawned, or
\* the 60 s of its sleep are over
WakeDue ==
    \/ sched.pc = "start"
    \/ sched.pc = "sleep" /\ wall - sched.sleptAt >= SleepMinutes

\* The scheduler from 08:59 on, its timer waking it as soon as the sleep is
\* over; the pass itself takes time
NextClock ==
    \/ Tick /\ ~WakeDue
    \/ save_agent_config
    \/ scheduler_pass_begin
    \/ scheduler_evaluate
    \/ scheduler_sleep

SpecClock == InitAt(StartBeforeAnchor) /\ [][NextClock]_vars

\* The scheduler over registered agents of every shape
NextLoop ==
    \/ Tick
    \/ save_agent_config
    \/ scheduler_pass_begin
    \/ scheduler_evaluate
    \/ scheduler_sleep

\* the scheduling the runtime gives: time passes, the spawned scheduler task
\* is run whenever it can take a step, and each call made in a pass returns
SchedulerFairness ==
    /\ WF_vars(Tick)
    /\ WF_vars(scheduler_pass_begin)
    /\ WF_vars(scheduler_evaluate)
    /\ WF_vars(scheduler_sleep)

SpecLoopLive == Init /\ [][NextLoop]_vars /\ SchedulerFairness

\* The manual tick over registered agents of every shape and filed drafts, at
\* and off the anchors
NextTick ==
    \/ Tick
    \/ save_agent_config
    \/ demo1_run
    \/ scheduler_tick_now

SpecTick == Init /\ [][NextTick]_vars

----------------------------------------------------------------------------
(* Vocabulary of the properties *)

\* some row with this id is in status 'pending'
HasPending(id) ==
    \E r \in 1..Len(approvals) : approvals[r].id = id /\ approvals[r].status = "pending"

\* the executor calls approve_action made for approval id
ExecsFor(id) ==
    {i \in 1..Len(execs) : execs[i].via = "approve_action" /\ execs[i].approval = id}

\* a log row of this agent with this message exists
Logged(agent, message) ==
    \E r \in BagToSet(logs) : r.agent_id = Some(agent) /\ r.message = message

Recognized(kind) == kind \in {"linkedin_post", "linkedin_comment"}

\* the approvals the current pass created for agent a
MadeFor(a) ==
    {k \in 1..Len(sched.made) : approvals[sched.made[k]].agent_id = a}

\* rows of the current pass whose loop body has run
Evaluated == {sched.rows[k] : k \in 1..(sched.i - 1)}

IsDaily(a) ==
    agents[a].schedule # None /\ contains(to_lowercase(agents[a].schedule[1]), kw_daily)
IsHourly(a) ==
    agents[a].schedule # None /\ contains(to_lowercase(agents[a].schedule[1]), kw_hourly)
IsPromo(a) == contains(to_lowercase(agents[a].name), kw_hashtag)

InPass == sched.pc \in {"evaluate", "sleep"}

----------------------------------------------------------------------------
(* Properties *)

\* C1: approve_action on an id with no pending row fails with not-found: the
\* call ends at its SELECT, no approval row, log row or executor call is
\* added or changed, and the result is never success.
C1_DecideNonPendingFails ==
    [][\A h \in Handlers :
          (calls[h].pc = "idle" /\ calls'[h] # calls[h] /\ ~HasPending(calls'[h].id))
          => /\ calls'[h].pc = "idle"
             /\ calls'[h].result = "not_found"
             /\ approvals' = approvals
             /\ execs' = execs
             /\ logs' = logs]_vars

C1_Witness ==
    \E h \in Handlers :
        /\ calls[h].pc = "idle"
        /\ calls[h].result = "not_found"
        /\ calls[h].id \in 1..Len(approvals)
        /\ approvals[calls[h].id].status = "approved"

\* C2: with two approve_action calls on the same pending id interleaving, the
\* executor is dispatched at most once for that approval.
C2_DispatchedAtMostOnce ==
    \A id \in 1..Len(approvals) : Cardinality(ExecsFor(id)) <= 1

\* C3: every approval starts in 'pending', and an approval that has left
\* 'pending' keeps its status in every later step; no row disappears.
C3_StatusOneWay ==
    [][/\ Len(approvals') >= Len(approvals)
       /\ \A id \in 1..Len(approvals) :
             /\ approvals'[id].status \in {"pending", "approved", "rejected"}
             /\ approvals[id].status # "pending"
                  => approvals'[id].status = approvals[id].status
       /\ \A id \in (Len(approvals) + 1)..Len(approvals') :
             approvals'[id].status = "pending"]_vars

C3_Witness ==
    \E id \in 1..Len(approvals) :
        /\ approvals[id].status = "approved"
        /\ approvals[id].decided_at[1] < wall
        /\ calls["h1"].result = "not_found" /\ calls["h1"].id = id
        /\ sched.pc = "sleep"

\* C4: create_approval stores a draft of any kind as pending; approving a
\* pending approval of an unrecognized kind leaves it 'approved', runs no
\* executor and returns the unsupported-kind error.
C4_UnknownKindApprovedNotExecuted ==
    /\ \A k \in Kinds, d \in Drafts :
          LET r == create_approval(approvals, 1, k, d, wall, TRUE)
          IN  /\ r.ok
              /\ r.rows[r.id].kind = k
              /\ r.rows[r.id].draft_text = d
              /\ r.rows[r.id].status = "pending"
    /\ \A h \in Handlers :
          /\ calls[h].result = "unsupported_kind"
               => /\ approvals[calls[h].id].status = "approved"
                  /\ ~Recognized(approvals[calls[h].id].kind)
          /\ calls[h].result \in {"ok", "exec_error"}
               => Recognized(approvals[calls[h].id].kind)
    /\ \A i \in 1..Len(execs) :
          execs[i].approval # 0 => Recognized(approvals[execs[i].approval].kind)

C4_Witness ==
    \E h \in Handlers :
        /\ calls[h].result = "unsupported_kind"
        /\ approvals[calls[h].id].kind = "unknown_kind"
        /\ approvals[calls[h].id].status = "approved"
        /\ ExecsFor(calls[h].id) = {}

\* C5: every executor call is the dispatch of an approve_action or the
\* scheduler's hourly promotional path; no other command calls the executor.
C5_ExecutorGated ==
    \A i \in 1..Len(execs) : execs[i].via \in {"approve_action", "scheduler_loop"}

\* C6: a pass whose snapshot is 09:00 creates exactly one approval per enabled
\* agent with a daily schedule and none for any other agent; a pass with any
\* other snapshot creates none.
C6_DailyTickOnePerEnabledAgent ==
    InPass =>
        \A a \in Evaluated :
            Cardinality(MadeFor(a)) =
                IF /\ agents[a].enabled
                   /\ IsDaily(a)
                   /\ sched.hour = 9 /\ sched.minute = 0
                THEN 1 ELSE 0

\* C7: an agent whose enabled flag is off never has an approval created for it
\* by a pass and never causes an executor call in a pass.
C7_DisabledAgentsNeverFire ==
    /\ \A k \in 1..Len(sched.made) : agents[approvals[sched.made[k]].agent_id].enabled
    /\ \A i \in 1..Len(execs) :
          execs[i].via = "scheduler_loop" => agents[execs[i].agent].enabled

\* C8: firing a daily agent only files a pending approval: the pass itself runs
\* nothing but the comment script of the hourly path, and the post script runs
\* with a draft only from approve_action on that approval, once it is approved.
C8_DailyFiringOnlyDrafts ==
    /\ \A i \in 1..Len(execs) :
          /\ execs[i].via = "scheduler_loop"
               => /\ execs[i].script = "linkedin_comment.js"
                  /\ execs[i].text = build_demo2_comment
                  /\ execs[i].approval = 0
          /\ execs[i].script = "linkedin_post.js"
               => /\ execs[i].via = "approve_action"
                  /\ execs[i].approval \in 1..Len(approvals)
                  /\ approvals[execs[i].approval].status = "approved"
                  /\ execs[i].text = approvals[execs[i].approval].draft_text
    /\ \A k \in 1..Len(sched.made) :
          approvals[sched.made[k]].status = "pending" => ExecsFor(sched.made[k]) = {}

C8_Witness ==
    \E k \in 1..Len(sched.made) :
        /\ approvals[sched.made[k]].status = "approved"
        /\ \E i \in ExecsFor(sched.made[k]) : execs[i].script = "linkedin_post.js"

\* C9 as stated: at minute 0, an agent whose schedule contains 'hourly' and
\* whose name does not contain 'hashtag' gets no approval and causes no
\* executor call.
C9_HourlyNonPromoIdle ==
    (InPass /\ sched.minute = 0) =>
        \A a \in Evaluated :
            (IsHourly(a) /\ ~IsPromo(a))
            => /\ MadeFor(a) = {}
               /\ \A i \in 1..Len(execs) :
                     ~(execs[i].via = "scheduler_loop" /\ execs[i].agent = a)

\* C9 amended: at minute 0, an agent whose schedule contains 'hourly' but not
\* 'daily' and whose name does not contain 'hashtag' gets no approval and
\* causes no executor call.
C9_HourlyOnlyNonPromoIdle ==
    (InPass /\ sched.minute = 0) =>
        \A a \in Evaluated :
            (IsHourly(a) /\ ~IsDaily(a) /\ ~IsPromo(a))
            => /\ MadeFor(a) = {}
               /\ \A i \in 1..Len(execs) :
                     ~(execs[i].via = "scheduler_loop" /\ execs[i].agent = a)

C9_Witness ==
    /\ InPass /\ sched.minute = 0
    /\ \E a \in Evaluated : IsHourly(a) /\ ~IsDaily(a) /\ ~IsPromo(a)
    /\ \E b \in AgentIds : agents[b].name = name_hashtag_promo
    /\ approvals = <<>> /\ execs = <<>>

\* what holds of an approve_action call between its UPDATE and its dispatch,
\* and of a finished dispatch of a recognized kind
C10_Order(requireCompletion) ==
    \A h \in Handlers :
        LET c == calls[h]
            row == approvals[c.id]
        IN  /\ c.pc = "dispatch"
              => /\ row.status = "approved" /\ row.decided_at # None
                 /\ Logged(row.agent_id, <<"Approval accepted id=", c.id>>)
            /\ (c.pc = "idle" /\ c.result \in {"ok", "exec_error"})
              => /\ row.status = "approved" /\ row.decided_at # None
                 /\ Logged(row.agent_id, <<"Approval accepted id=", c.id>>)
                 /\ ExecsFor(c.id) # {}
                 /\ \A i \in ExecsFor(c.id) :
                       /\ execs[i].text = row.draft_text
                       /\ Some(execs[i].script) = ExecutorFor(row.kind)
                 /\ (requireCompletion \/ c.result = "ok")
                       => Logged(row.agent_id, DoneMessage(row.kind))

\* the dispatch step of handler h runs the executor exactly once, with the
\* draft read at the SELECT
C10_DispatchOnce(h) ==
    (calls[h].pc = "dispatch" /\ calls'[h].pc = "idle" /\ Recognized(calls[h].kind))
    => /\ Len(execs') = Len(execs) + 1
       /\ execs'[Len(execs')].text = approvals[calls[h].id].draft_text
       /\ execs'[Len(execs')].approval = calls[h].id
       /\ approvals' = approvals

\* C10 as stated: approving a pending approval of a recognized kind sets the
\* status and the decision timestamp, then runs the executor of the kind with
\* the stored draft, and the approval and the completion are both logged for
\* the owning agent.
C10_ApproveExecuteLogBoth == C10_Order(TRUE)

\* C10 amended: approving a pending approval of a recognized kind sets the
\* status and the decision timestamp, then runs the executor of the kind once
\* with the stored draft; the approval is logged for the owning agent, and the
\* completion is logged when the executor succeeds.
C10_ApproveExecuteLog ==
    [][C10_Order(FALSE)' /\ \A h \in Handlers : C10_DispatchOnce(h)]_vars

C10_Witness ==
    \E h \in Handlers :
        /\ calls[h].pc = "idle" /\ calls[h].result = "ok"
        /\ Cardinality(ExecsFor(calls[h].id)) = 1
        /\ Logged(approvals[calls[h].id].agent_id, DoneMessage(approvals[calls[h].id].kind))

\* C11: a pending approval can be decided 'Rejected': some step of the program
\* moves it to the terminal status 'rejected' and runs no executor.
C11_RejectPendingPossible ==
    \A id \in 1..Len(approvals) :
        approvals[id].status = "pending"
        => ENABLED (Next /\ approvals'[id].status = "rejected" /\ execs' = execs)

\* an entry of a listing is the pending row it names, with that row's kind
\* and draft
C12_EntryOf(e, rows) ==
    /\ e[2] \in 1..Len(rows)
    /\ rows[e[2]].status = "pending"
    /\ e[3] = rows[e[2]].kind
    /\ e[4] = rows[e[2]].draft_text

\* C12: right after create_approval(agent, kind, draft) every listing
\* list_pending_approvals can return holds the created id with that kind and
\* draft; and every listing returned holds pending rows only, each with its
\* own kind and draft, all of them, newest first.
C12_CreateThenListRoundTrip ==
    [][/\ \A a \in AgentIds, k \in Kinds, d \in Drafts :
             (Len(approvals') = Len(approvals) + 1
                /\ approvals' = create_approval(approvals, a, k, d, wall, TRUE).rows)
             => \A l \in PendingListings(approvals') :
                   \E e \in 1..Len(l) : l[e] = <<e, Len(approvals'), k, d>>
       /\ (reply'.n = reply.n + 1 /\ reply'.op = "list_pending_approvals")
             => LET l == reply'.message
                IN  /\ \A e \in 1..Len(l) : l[e][1] = e /\ C12_EntryOf(l[e], approvals)
                    /\ \A id \in 1..Len(approvals) :
                          approvals[id].status = "pending"
                          => \E e \in 1..Len(l) : l[e][2] = id
                    /\ \A e, f \in 1..Len(l) :
                          e < f => /\ l[e][2] # l[f][2]
                                   /\ approvals[l[e][2]].created_at
                                        >= approvals[l[f][2]].created_at]_vars

C12_Witness ==
    /\ reply.op = "list_pending_approvals"
    /\ Len(reply.message) = 2
    /\ reply.message[1][2] = 2
    /\ reply.message[1][3] # reply.message[2][3]
    /\ reply.message[1][4] # reply.message[2][4]
    /\ approvals[2].created_at > approvals[1].created_at

\* C13: for an error body that holds a secret prefix followed by the rest of a
\* key, redact_secrets keeps the text up to and with the prefix, writes the
\* marker in place of the rest of the key, and what follows the prefix holds
\* no run of the original key.
C13_RedactionMasksKey ==
    reply.op = "redact_secrets"
    => LET pre == reply.arg[1]
           prefix == reply.arg[2]
           key == reply.arg[3]
           out == reply.message[2]
           head == Len(pre) + Len(prefix)
       IN  /\ Len(out) >= head + Len(marker)
           /\ SubSeq(out, 1, head) = pre \o prefix
           /\ SubSeq(out, head + 1, head + Len(marker)) = marker
           /\ ~contains(SubSeq(out, head + 1, Len(out)), key)

\* C14: whenever llm_reply returns an error that carries a body a provider
\* sent, the text carried is that body passed through redact_secrets; and the
\* body an adapter logs is a body passed through redact_secrets.
C14_FailureBodiesRedacted ==
    /\ (reply.op = "llm_reply" /\ ~reply.ok /\ reply.raw # None)
          => reply.message[2] = redact_secrets(reply.raw[1])
    /\ \A r \in BagToSet(logs) :
          r.message[1] = "Local LLM HTTP"
          => \E b \in RouterBodies : r.message[2] = redact_secrets(b)

\* C15: every llm_reply follows the latest write of the credential slot: after
\* clear_user_api_key (or no write at all) it calls the local adapter, after a
\* successful save_user_api_key it goes to the saved provider's arm and never
\* to the local adapter, whatever the calls before it used.
C15_RouterNotSticky ==
    [][(reply'.n = reply.n + 1 /\ reply'.op = "llm_reply")
       => /\ (reply.cred = <<>> \/ reply.cred = <<"clear_user_api_key">>)
               => /\ reply'.adapter = p_local_phi3
                  /\ reply'.label = p_local_phi3
          /\ (Len(reply.cred) = 2)
               => /\ reply'.label = reply.cred[2]
                  /\ reply'.adapter # p_local_phi3
                  /\ reply.cred[2] \in {p_gemini, p_openai, p_anthropic}
                       => reply'.adapter = reply.cred[2]]_vars

C15_Witness ==
    /\ reply.op = "llm_reply"
    /\ reply.cred = <<"clear_user_api_key">>
    /\ reply.adapter = p_local_phi3
    /\ \E r \in BagToSet(logs) : r.message = <<"LLM routing: external", p_openai>>

\* the key is absent or empty once trimmed
C16_NoKey(row) ==
    \/ row.llm_api_key = None
    \/ \A i \in 1..Len(row.llm_api_key[1]) : row.llm_api_key[1][i] = " "

\* C16: get_saved_llm is None exactly when the stored key is absent or empty
\* once trimmed; llm_reply calls the local adapter exactly then, and with a key
\* stored it never calls the local adapter and labels its result, success or
\* failure, with the stored provider.
C16_RouteFollowsKey ==
    [][/\ (get_saved_llm(settings) = None) <=> C16_NoKey(settings)
       /\ (reply'.n = reply.n + 1 /\ reply'.op = "llm_reply")
             => /\ (reply'.adapter = p_local_phi3) <=> C16_NoKey(settings)
                /\ C16_NoKey(settings) => reply'.label = p_local_phi3
                /\ ~C16_NoKey(settings) => reply'.label = settings.llm_provider[1]]_vars

C16_Witness ==
    /\ reply.op = "llm_reply"
    /\ ~reply.ok
    /\ reply.outcome = "http"
    /\ reply.label = p_anthropic
    /\ settings.llm_provider = Some(p_anthropic)

C17_Known == {p_gemini, p_openai, p_anthropic}

\* C17: save_user_api_key with a non-empty key and a provider that is no alias
\* of the three succeeds and stores the provider (trimmed, in lower case);
\* while that credential is stored every llm_reply fails with the
\* unknown-provider error naming the stored value and calls no adapter,
\* external or local.
C17_UnknownProviderRejectedAtRouting ==
    [][/\ (reply'.n = reply.n + 1 /\ reply'.op = "save_user_api_key"
            /\ (\E i \in 1..Len(reply'.arg[1]) : reply'.arg[1][i] # " ")
            /\ normalize_provider(reply'.arg[2]) \notin C17_Known)
             => /\ reply'.ok
                /\ settings'.llm_provider = Some(to_lowercase(trim(reply'.arg[2])))
                /\ settings'.llm_api_key # None
       /\ (reply'.n = reply.n + 1 /\ reply'.op = "llm_reply"
            /\ ~C16_NoKey(settings) /\ settings.llm_provider[1] \notin C17_Known)
             => /\ ~reply'.ok
                /\ reply'.outcome = "unknown_provider"
                /\ reply'.message = <<"Unknown provider", settings.llm_provider[1]>>
                /\ reply'.adapter = <<>>
                /\ BagCardinality(logs') = BagCardinality(logs) + 1]_vars

C17_Witness ==
    /\ reply.op = "llm_reply"
    /\ reply.outcome = "unknown_provider"
    /\ \E r \in BagToSet(logs) :
          /\ r.message = <<"LLM routing: external", <<"m","i","s","t","r","a","l">>>>
          /\ CopiesIn(r, logs) = 2

\* C18: when the provider answers successfully but holds no answer text,
\* llm_reply returns an error, with every adapter.
C18_EmptyResponseIsError ==
    (reply.op = "llm_reply" /\ reply.outcome = "empty") => ~reply.ok

\* C19: save_user_api_key with an empty or blank key fails with the validation
\* error and leaves the credential slot, the log and with them the route of
\* the next llm_reply as they were.
C19_EmptyKeyRejected ==
    [][(reply'.n = reply.n + 1 /\ reply'.op = "save_user_api_key"
        /\ (\A i \in 1..Len(reply'.arg[1]) : reply'.arg[1][i] = " "))
       => /\ ~reply'.ok
          /\ reply'.message = <<"API key is empty.">>
          /\ settings' = settings
          /\ get_saved_llm(settings') = get_saved_llm(settings)
          /\ logs' = logs]_vars

C19_Witness ==
    /\ reply.op = "save_user_api_key"
    /\ ~reply.ok
    /\ reply.arg[1] = <<" ", " ">>
    /\ settings.llm_api_key # None
    /\ settings.updated_at[1] < wall

\* C20: the action log is append-only: every step keeps every log row, with
\* its agent id, timestamp, level and message, as many times as it was there.
C20_LogAppendOnly ==
    [][logs \sqsubseteq logs']_vars

C20_Witness ==
    /\ BagCardinality(logs) >= 5
    /\ \E r1, r2 \in BagToSet(logs) :
          /\ r1.timestamp < r2.timestamp
          /\ r1.agent_id # r2.agent_id

----------------------------------------------------------------------------
\* this step adds a log row of this agent with this message
AddedLog(agent, message) ==
    \E r \in BagToSet(logs') :
        /\ r.agent_id = Some(agent)
        /\ r.message = message
        /\ CopiesIn(r, logs') > CopiesIn(r, logs)

\* C21: Every change of an approval's state is logged for the owning agent:
\* a step that inserts an approval (the scheduler's daily branch, demo1_run,
\* run_demo1_once, run_demo1_now) also adds a "created approval" log row of
\* the approval's agent, and a step that takes an approval from pending to
\* approved also adds an "Approval accepted" log row of that agent.
C21_ApprovalChangesLogged ==
    [][ /\ \A id \in 1..Len(approvals') :
              id > Len(approvals) =>
                  \/ AddedLog(approvals'[id].agent_id, <<"Created approval id=", id>>)
                  \/ AddedLog(approvals'[id].agent_id, <<"Demo1 created approval id=", id>>)
        /\ \A id \in 1..Len(approvals) :
              (approvals[id].status = "pending" /\ approvals'[id].status = "approved") =>
                  AddedLog(approvals[id].agent_id, <<"Approval accepted id=", id>>)
      ]_vars

\* an approval filed by run_demo1_now has been approved, and both changes are
\* in its agent's log
C21_Witness ==
    /\ reply.op = "run_demo1_now"
    /\ reply.outcome = "created"
    /\ approvals[reply.message[1]].status = "approved"
    /\ Logged(approvals[reply.message[1]].agent_id, <<"Created approval id=", reply.message[1]>>)
    /\ Logged(approvals[reply.message[1]].agent_id, <<"Approval accepted id=", reply.message[1]>>)
    /\ \E id \in 1..Len(approvals) :
          Logged(approvals[id].agent_id, <<"Demo1 created approval id=", id>>)

----------------------------------------------------------------------------
\* C22: No step deletes an approval or changes its id, agent id, kind, draft
\* text or created_at, and a step changes an approval row only when the row is
\* pending before the step, so that each approval is mutated once, by the
\* decision that takes it out of pending, also when several decisions on the
\* same id are in flight.
C22_ApprovalsMutatedOnce ==
    [][ /\ Len(approvals') >= Len(approvals)
        /\ \A id \in 1..Len(approvals) :
              /\ approvals'[id].id = approvals[id].id
              /\ approvals'[id].agent_id = approvals[id].agent_id
              /\ approvals'[id].kind = approvals[id].kind
              /\ approvals'[id].draft_text = approvals[id].draft_text
              /\ approvals'[id].created_at = approvals[id].created_at
              /\ approvals'[id] # approvals[id] => approvals[id].status = "pending"
      ]_vars

----------------------------------------------------------------------------
\* the registered agents with this name
Named(name) == {a \in AgentIds : agents[a].name = name}

\* C23: run_demo1_now(agent_name) files its approval, a pending linkedin_post,
\* for an agent of that name than which no agent of the name was created
\* later; when no agent has the name it answers not-found and leaves the
\* approvals and the log as they were.
C23_RunDemo1NowTargetsLatestNamed ==
    [][ (reply'.n = reply.n + 1 /\ reply'.op = "run_demo1_now") =>
          LET named == Named(reply'.arg[1])
              n == Len(approvals)
          IN  /\ named = {} =>
                    /\ reply'.outcome = "not_found"
                    /\ ~reply'.ok
                    /\ approvals' = approvals
                    /\ logs' = logs
              /\ named # {} =>
                    /\ reply'.outcome \in {"created", "store_error"}
                    /\ reply'.outcome = "store_error" => approvals' = approvals
                    /\ reply'.outcome = "created" =>
                          /\ reply'.ok
                          /\ Len(approvals') = n + 1
                          /\ SubSeq(approvals', 1, n) = approvals
                          /\ approvals'[n + 1].agent_id \in named
                          /\ \A b \in named :
                                agents[b].created_at
                                    <= agents[approvals'[n + 1].agent_id].created_at
                          /\ approvals'[n + 1].kind = "linkedin_post"
                          /\ approvals'[n + 1].status = "pending"
      ]_vars

\* two agents share a name, the second created a minute after the first, and
\* run_demo1_now has filed its approval for the second
C23_Witness ==
    /\ reply.op = "run_demo1_now"
    /\ reply.outcome = "created"
    /\ Len(agents) = 2
    /\ agents[1].name = reply.arg[1]
    /\ agents[2].name = reply.arg[1]
    /\ agents[1].created_at < agents[2].created_at
    /\ approvals[reply.message[1]].agent_id = 2

----------------------------------------------------------------------------
\* the scheduler task takes a step in the for loop of a pass
LoopBodyStep ==
    /\ sched.pc = "evaluate"
    /\ sched.i <= Len(sched.rows)
    /\ sched' # sched

\* the agent whose row the for loop is at
CurrentAgent == agents[sched.rows[sched.i]]

\* C24: Whatever the outcome of a row's loop body, failed approval insertion
\* and failed auto-run included, the pass stays in its for loop with the same
\* rows and the same snapshot and moves to the next row, a row that is due by
\* the snapshot is fired (its firing is logged), and the pass goes to sleep
\* only after its last row.
C24_FailureDoesNotAbortPass ==
    [][ /\ LoopBodyStep =>
              LET a == CurrentAgent
                  s == to_lowercase(a.schedule[1])
              IN  /\ sched'.pc = "evaluate"
                  /\ sched'.i = sched.i + 1
                  /\ sched'.rows = sched.rows
                  /\ sched'.hour = sched.hour
                  /\ sched'.minute = sched.minute
                  /\ DailyDue(s, sched.hour, sched.minute) =>
                        AddedLog(a.id, <<"Scheduler executed daily agent">>)
                  /\ HourlyDue(s, a.name, sched.minute) =>
                        AddedLog(a.id, <<"Scheduler fired (hourly) -> Demo2">>)
        /\ (sched.pc = "evaluate" /\ sched'.pc = "sleep") => sched.i > Len(sched.rows)
      ]_vars

\* the first agent's approval insertion failed in this pass and the second
\* agent of the pass, whose auto-run failed too, was still fired
C24_Witness ==
    /\ InPass
    /\ Len(sched.rows) = 2
    /\ sched.i = 3
    /\ \E r \in BagToSet(logs) :
          r.agent_id = Some(sched.rows[1]) /\ r.level = "ERROR"
    /\ Logged(sched.rows[2], <<"Scheduler fired (hourly) -> Demo2">>)
    /\ \E e \in 1..Len(execs) : execs[e].agent = sched.rows[2] /\ ~execs[e].ok

----------------------------------------------------------------------------
\* this step adds a log row of level ERROR of this agent
AddedError(agent) ==
    \E r \in BagToSet(logs') :
        /\ r.agent_id = Some(agent)
        /\ r.level = "ERROR"
        /\ CopiesIn(r, logs') > CopiesIn(r, logs)

\* C25: Every failure of a row's loop body is logged for the row's agent: when
\* a due daily agent's approval is not inserted, and when a due hourly
\* promotional agent's auto-run fails (the comment script is not run, or runs
\* and fails), the step adds an ERROR log row of that agent.
C25_PassFailuresLogged ==
    [][ LoopBodyStep =>
          LET a == CurrentAgent
              s == to_lowercase(a.schedule[1])
          IN  /\ (DailyDue(s, sched.hour, sched.minute) /\ approvals' = approvals)
                    => AddedError(a.id)
              /\ (/\ HourlyDue(s, a.name, sched.minute)
                  /\ \/ Len(execs') = Len(execs)
                     \/ ~execs'[Len(execs')].ok)
                    => AddedError(a.id)
      ]_vars

----------------------------------------------------------------------------
\* row k of the current pass is due by the pass's snapshot
DueInPass(k) ==
    LET a == agents[sched.rows[k]]
        s == to_lowercase(a.schedule[1])
    IN  DailyDue(s, sched.hour, sched.minute) \/ HourlyDue(s, a.name, sched.minute)

\* this step logs the firing of agent a by the scheduler
FiringLogged(a) ==
    \/ AddedLog(a, <<"Scheduler executed daily agent">>)
    \/ AddedLog(a, <<"Scheduler fired (hourly) -> Demo2">>)

\* C26: A call that hangs for one agent does not keep the other due agents of
\* the pass from being fired: while the pass is blocked in one row's call,
\* each later row that is due by the snapshot can still be fired.
C26_HangDoesNotBlockOthers ==
    \A k \in 1..Len(sched.rows) :
        (sched.pc = "blocked" /\ k > sched.i /\ DueInPass(k)) =>
            ENABLED (NextHang /\ FiringLogged(sched.rows[k]))

----------------------------------------------------------------------------
\* minute of the day of the snapshot a pass holds
SnapshotOf(sc) == sc.hour * 60 + sc.minute

\* the loop wakes from its sleep and takes the next snapshot
NextSnapshotStep == sched.pc = "sleep" /\ sched'.pc = "evaluate"

\* C27: The loop takes a snapshot in the daily anchor minute 09:00 exactly
\* once a day: two consecutive snapshots of a day are never one before 09:00
\* and the next after 09:00, and never both 09:00.
C27_AnchorMinuteOncePerDay ==
    [][ NextSnapshotStep =>
          /\ ~(/\ SnapshotOf(sched) < DailyHour * 60 + DailyMinute
               /\ SnapshotOf(sched') > DailyHour * 60 + DailyMinute)
          /\ ~(/\ SnapshotOf(sched) = DailyHour * 60 + DailyMinute
               /\ SnapshotOf(sched') = DailyHour * 60 + DailyMinute)
      ]_vars

----------------------------------------------------------------------------
\* C28: The hour and minute are read once per pass, when the pass begins, and
\* every row of the pass is tested against that reading, whatever the clock
\* shows when the row's turn comes: a row is fired by the daily (hourly) rule
\* exactly when it is due by the snapshot, and the snapshot does not change
\* inside the pass.
C28_OneSnapshotPerPass ==
    [][ /\ (sched.pc # "evaluate" /\ sched'.pc = "evaluate") =>
              (sched'.hour = hour_of(wall) /\ sched'.minute = minute_of(wall))
        /\ (sched.pc = "evaluate" /\ sched'.pc = "evaluate") =>
              (sched'.hour = sched.hour /\ sched'.minute = sched.minute)
        /\ LoopBodyStep =>
              LET a == CurrentAgent
                  s == to_lowercase(a.schedule[1])
              IN  /\ AddedLog(a.id, <<"Scheduler executed daily agent">>)
                        <=> DailyDue(s, sched.hour, sched.minute)
                  /\ AddedLog(a.id, <<"Scheduler fired (hourly) -> Demo2">>)
                        <=> HourlyDue(s, a.name, sched.minute)
      ]_vars

\* in the pass with snapshot 09:00 a daily agent was fired after the clock
\* had moved on to 09:01
C28_Witness ==
    /\ InPass
    /\ sched.hour = DailyHour
    /\ sched.minute = DailyMinute
    /\ \E r \in BagToSet(logs) :
          /\ r.message = <<"Scheduler executed daily agent">>
          /\ minute_of(r.timestamp) # sched.minute
          /\ \E k \in 1..(sched.i - 1) : r.agent_id = Some(sched.rows[k])

----------------------------------------------------------------------------
\* the model's tables have no room for the loop body of the current row
TablesAtBound ==
    /\ sched.pc = "evaluate"
    /\ sched.i <= Len(sched.rows)
    /\ ~ENABLED scheduler_evaluate

\* the model's clock has reached its last minute
ClockAtBound == ~ENABLED Tick

----------------------------------------------------------------------------
\* C30: When the loop body fires an hourly agent whose name contains
\* 'hashtag' (minute 0 of the snapshot), that step runs the comment script
\* exactly once, files no approval on the hourly path, and writes the start
\* log, and after a successful run the completion log, for the agent that was
\* fired, whatever agents are registered.
C30_AutoRunOncePerFiringForFiredAgent ==
    [][ LoopBodyStep =>
          LET a == CurrentAgent
              s == to_lowercase(a.schedule[1])
              n == Len(execs)
          IN  HourlyDue(s, a.name, sched.minute) =>
                /\ Len(execs') = n + 1
                /\ execs'[n + 1].script = "linkedin_comment.js"
                /\ ~DailyDue(s, sched.hour, sched.minute) => approvals' = approvals
                /\ AddedLog(a.id, <<"Demo2 started: commenting on #openclaw...">>)
                /\ execs'[n + 1].ok =>
                      AddedLog(a.id, <<"Demo2 completed: comments posted.">>)
      ]_vars

----------------------------------------------------------------------------
\* C31: In every reachable state, also between the store operations of
\* decisions in flight, an approval's decided_at is NULL exactly when its
\* status is 'pending'.
C31_DecidedAtNullIffPending ==
    \A id \in 1..Len(approvals) :
        (approvals[id].decided_at = None) <=> (approvals[id].status = "pending")

\* one approval has been decided and carries its decision time while another
\* is still pending, with a decision on it in flight
C31_Witness ==
    /\ Len(approvals) = 2
    /\ approvals[1].status = "approved"
    /\ approvals[1].decided_at # None
    /\ approvals[2].status = "pending"
    /\ approvals[2].decided_at = None
    /\ \E h \in Handlers : calls[h].pc = "update" /\ calls[h].id = 2

----------------------------------------------------------------------------
\* approve_action has run the executor for approval id and the run failed
FailedFor(id) == \E i \in ExecsFor(id) : ~execs[i].ok

\* C32: When the executor fails in approve_action, the call returns the
\* executor's error without writing the completion log and the approval is
\* left 'approved'; from then on no approve_action finds the approval
\* pending, and the executor is not run again for it.
C32_FailedDispatchIsFinal ==
    [][ \A h \in Handlers :
          /\ (calls[h].pc = "dispatch" /\ calls'[h].result = "exec_error") =>
                /\ approvals'[calls[h].id].status = "approved"
                /\ ~AddedLog(calls[h].agent_id, DoneMessage(calls[h].kind))
          /\ (calls[h].pc = "idle" /\ calls'[h].pc = "update") =>
                ~FailedFor(calls'[h].id)
          /\ \A id \in 1..Len(approvals) :
                FailedFor(id) =>
                    \/ Len(execs') = Len(execs)
                    \/ execs'[Len(execs')].approval # id
      ]_vars

----------------------------------------------------------------------------
\* this step adds a log row written by scheduler_tick_now
ManualTickStep ==
    \E r \in BagToSet(logs') :
        /\ CopiesIn(r, logs') > CopiesIn(r, logs)
        /\ r.message \in {<<"Scheduler tick: daily agent fired">>,
                          <<"Scheduler tick: hourly agent fired">>}

\* C33: A scheduler_tick_now step leaves the agents, the approvals and the
\* executor history as they were and only adds log rows: one "daily fired"
\* row for exactly the agents whose schedule contains 'daily' and one "hourly
\* fired" row for exactly those whose schedule contains 'hourly', at any time
\* of day and whatever the agent's name.
C33_ManualTickOnlyLogs ==
    [][ ManualTickStep =>
          /\ agents' = agents
          /\ approvals' = approvals
          /\ execs' = execs
          /\ logs \sqsubseteq logs'
          /\ \A a \in AgentIds :
                /\ IsDaily(a) <=> AddedLog(a, <<"Scheduler tick: daily agent fired">>)
                /\ IsHourly(a) <=> AddedLog(a, <<"Scheduler tick: hourly agent fired">>)
          /\ BagCardinality(logs') - BagCardinality(logs)
                = Cardinality({a \in AgentIds : IsDaily(a)})
                  + Cardinality({a \in AgentIds : IsHourly(a)})
      ]_vars

\* a tick at 09:01 has reported a daily agent and an hourly agent whose name
\* does not contain 'hashtag', while a draft stays pending
C33_Witness ==
    /\ \E r \in BagToSet(logs) :
          /\ r.message = <<"Scheduler tick: daily agent fired">>
          /\ r.timestamp = 541
    /\ \E r \in BagToSet(logs) :
          /\ r.message = <<"Scheduler tick: hourly agent fired">>
          /\ r.timestamp = 541
          /\ ~IsPromo(r.agent_id[1])
    /\ \E id \in 1..Len(approvals) : approvals[id].status = "pending"
    /\ execs = <<>>

----------------------------------------------------------------------------
\* user_settings has exactly one row, whose provider is NULL exactly when its
\* key is NULL and whose key, when stored, is non-empty and trimmed
C34_SlotWellFormed ==
    /\ Cardinality(DOMAIN user_settings) = 1
    /\ (settings.llm_provider = None) <=> (settings.llm_api_key = None)
    /\ settings.llm_api_key # None =>
          /\ settings.llm_api_key[1] # <<>>
          /\ settings.llm_api_key[1][1] # " "
          /\ settings.llm_api_key[1][Len(settings.llm_api_key[1])] # " "

\* C34: The credential is one slot whose fields move together: initially and
\* after every save_user_api_key, clear_user_api_key and bootstrap of the
\* table there is exactly one settings row, its provider is NULL exactly when
\* its key is NULL, a stored key is non-empty and carries no surrounding
\* whitespace, and a step that is neither a successful save nor a clear (the
\* bootstrap run by get_user_settings and llm_reply, a rejected save) leaves
\* the row as it was.
C34_CredentialSlotMovesTogether ==
    /\ C34_SlotWellFormed
    /\ [][ /\ C34_SlotWellFormed'
           /\ (reply'.n = reply.n + 1 /\ reply'.op = "get_user_settings") =>
                 user_settings' = user_settings
           /\ user_settings' # user_settings =>
                 \/ reply'.cred = <<"clear_user_api_key">> /\ reply'.op = "clear_user_api_key"
                 \/ reply'.op = "save_user_api_key" /\ reply'.ok
         ]_vars

\* the bootstrap has run, through get_user_settings, a minute after a key
\* given with surrounding blanks was saved, and the key is still stored
C34_Witness ==
    /\ reply.op = "get_user_settings"
    /\ reply.outcome = "set"
    /\ settings.llm_api_key # None
    /\ settings.llm_provider # None
    /\ settings.updated_at[1] < wall

====
